---- MODULE Spec2Model ----
(***************************************************************************)
(* Model of kq.worker.Worker (src/kq/worker.py): the consumption loop of   *)
(* Worker.start, one attempt of Worker._consume_record, the callback       *)
(* wrapper Worker._exec_callback, the dead-letter forward                   *)
(* Worker._fail_record, the one-process multiprocessing pool the jobs with *)
(* a timeout run in, and the broker's committed offsets.                    *)
(*                                                                         *)
(* Python's None is the string "None" in the callback's arguments and in   *)
(* keys, and NoTimeout in the timeout domain.  Time is discrete: Tick is   *)
(* one unit of wall-clock time.                                             *)
(***************************************************************************)
EXTENDS Integers, Sequences, FiniteSets, TLC

\* ---------------------------------------------------------------- bounds
MaxRecords == 2         \* records fetched by the worker
MaxTries == 2           \* attempts per delivery (the code has no bound)
MaxTimeout == 1         \* largest timeout, in ticks

\* ------------------------------------------------------ program constants
NoTimeout == -1         \* timeout=None
Retry == 0              \* while commit_control == 0
DeadLetter == -1        \* if commit_control == -1
DefaultResp == 1        \* if resp is None: resp = 1

\* The partitions the broker has assigned to the worker.
Partitions == {0}
LastPartition == CHOOSE p \in Partitions : \A q \in Partitions : q <= p
TimeoutVals == {NoTimeout} \cup (0 .. MaxTimeout)
Keys == {"None", "k1"}

\* The values a callback can return besides None; 2 stands for any value
\* that is neither 0, -1 nor 1.
RespValues == {-1, 0, 1, 2}

\* One invocation of the user's callback: it raises, returns None, or
\* returns a value.
CallbackBehaviours ==
    {[kind |-> "raise", val |-> 0], [kind |-> "none", val |-> 0]}
    \cup {[kind |-> "value", val |-> v] : v \in RespValues}

\* How one execution of a job's callable ends: it returns a value, raises
\* an exception, or raises multiprocessing.TimeoutError itself.
FuncResults == {"value", "exc", "toexc"}

\* ------------------------------------------------------------- payloads
\* The bytes of a record.  "garbage" does not unpickle; "other" unpickles
\* to an object that is no Job (and has no attribute key); "Job" unpickles
\* to a Job namedtuple whose shape says which of its fields is unusable.
Shapes == {"ok", "bad_args", "bad_kwargs", "bad_func"}

Payloads ==
    {[kind |-> "garbage", shape |-> "ok", key |-> "None", timeout |-> NoTimeout],
     [kind |-> "other", shape |-> "ok", key |-> "None", timeout |-> NoTimeout]}
    \cup {[kind |-> "Job", shape |-> s, key |-> "k1", timeout |-> NoTimeout] :
            s \in Shapes \ {"ok"}}
    \cup {[kind |-> "Job", shape |-> "ok", key |-> "k1", timeout |-> t] :
            t \in TimeoutVals}

\* Queue.enqueue sends a job under the job's own key; bytes that are no
\* pickled Job come from another producer, under any key.
RecordKeys(value) == IF value.kind = "Job" THEN {value.key} ELSE Keys

\* dill.loads(record.value): whether it returns, and what it returns.
Loadable(value) == value.kind # "garbage"

loads(value) ==
    [type |-> value.kind,
     args_iterable |-> value.shape # "bad_args",
     kwargs_mapping |-> value.shape # "bad_kwargs",
     func_callable |-> value.shape # "bad_func",
     key |-> value.key,
     timeout |-> value.timeout]

\* The validity check without its callable(job.func) test.
IsValidJob_no_callable(job) ==
    /\ job.type = "Job"
    /\ job.args_iterable
    /\ job.kwargs_mapping

\* The validity check of _consume_record.
IsValidJob(job) ==
    /\ job.type = "Job"
    /\ job.args_iterable
    /\ job.kwargs_mapping
    /\ job.func_callable

\* Python's `a or b` on timeouts: a when a is truthy (neither None nor 0).
PyOr(a, b) == IF a # NoTimeout /\ a # 0 THEN a ELSE b

VARIABLES
    w_timeout,       \* self._timeout
    w_callback,      \* self._callback is not None
    position,        \* the consumer's position per partition
    committed,       \* the group's committed offset per partition
    pc,              \* where the loop of start() stands
    record,          \* the record of the for loop
    commit_control,
    try_count,
    inline_hang,     \* the callable running inline never returns
    pool,            \* tasks submitted to self._pool and not started
    slot,            \* the task the pool's one process runs (<<>> if idle)
    result,          \* the AsyncResult the worker waits on
    waited,          \* time spent in run.get(timeout)
    in_slot,         \* time the awaited task has spent in the pool's process
    hist,            \* the last finished attempt of the current delivery
    events,          \* what happened to the current delivery, in order
    forwarded,       \* messages sent to the fail topic for the delivery
    settled,         \* records with a committing decision or a forward
    producers,       \* Queue objects built by _fail_record
    redelivery       \* the record of the for loop was delivered before

vars == <<w_timeout, w_callback, position, committed, pc, record,
          commit_control, try_count, inline_hang, pool, slot, result, waited,
          in_slot, hist, events, forwarded, settled, producers,
          redelivery>>

NoRecord == [partition |-> -1, offset |-> -1, key |-> "None",
             value |-> [kind |-> "garbage", shape |-> "ok", key |-> "None",
                        timeout |-> NoTimeout]]

Init ==
    /\ w_timeout \in TimeoutVals
    /\ w_callback \in BOOLEAN
    /\ position = [p \in Partitions |-> 0]
    /\ committed = [p \in Partitions |-> 0]
    /\ pc = "fetch"
    /\ record = NoRecord
    /\ commit_control = 0
    /\ try_count = 0
    /\ inline_hang = FALSE
    /\ pool = <<>>
    /\ slot = <<>>
    /\ result = "pending"
    /\ waited = 0
    /\ in_slot = 0
    /\ hist = <<>>
    /\ events = <<>>
    /\ forwarded = <<>>
    /\ settled = {}
    /\ producers = 0
    /\ redelivery = FALSE


\* ------------------------------------------------- the code's decisions
\* _exec_callback without the default: no value from the callback is taken
\* for the dead-letter decision.
exec_callback_no_default(has_callback, cb) ==
    IF has_callback /\ cb.kind = "value" THEN cb.val
    ELSE IF has_callback THEN DeadLetter ELSE DefaultResp

\* Worker._exec_callback: the callback's return value, 1 when there is no
\* callback, when it raised (caught and logged) or when it returned None.
exec_callback(has_callback, cb) ==
    IF has_callback /\ cb.kind = "value" THEN cb.val ELSE DefaultResp

\* The callback given the number of the attempt, counted from one.
callback_args_one_based(status, job, tries) ==
    CASE status = "timeout" ->
           <<"timeout", job, "None", "None", "None", tries + 1>>
      [] status = "failure" -> <<"failure", job, "None", "exc", "tb", tries + 1>>
      [] OTHER -> <<"success", job, "res", "None", "None", tries + 1>>

\* The arguments _consume_record hands to _exec_callback in each except /
\* else branch.
callback_args(status, job, tries) ==
    CASE status = "timeout" -> <<"timeout", job, "None", "None", "None", tries>>
      [] status = "failure" -> <<"failure", job, "None", "exc", "tb", tries>>
      [] OTHER -> <<"success", job, "res", "None", "None", tries>>

\* The except clauses in the other order: `except Exception` first, which
\* also catches the TimeoutError of run.get.
status_of_exception_first(outcome) ==
    CASE outcome \in {"expired", "toexc", "exc"} -> "failure"
      [] OTHER -> "success"

\* The except clauses of _consume_record: multiprocessing.TimeoutError,
\* raised by run.get(timeout) or by the callable, is 'timeout'; any other
\* Exception is 'failure'; no exception is 'success'.
status_of(outcome) ==
    CASE outcome \in {"expired", "toexc"} -> "timeout"
      [] outcome = "exc" -> "failure"
      [] OTHER -> "success"

\* timeout = self._timeout or job.timeout
effective_timeout(worker_timeout, job) == PyOr(worker_timeout, job.timeout)

\* The decision of a record that does not unpickle or is no valid job.
malformed_decision == DeadLetter

\* The loop repeating on the dead-letter decision instead of on retry.
loop_again_on_dead_letter(cc) == cc = DeadLetter

\* `if` for `while`: one attempt whatever the decision.
loop_again_never(cc) == FALSE

\* while commit_control == 0
loop_again(cc) == cc = Retry

\* Every decision but 1 taken for the dead-letter decision.
is_dead_letter_not_one(cc) == cc # DefaultResp

\* if commit_control == -1
is_dead_letter(cc) == cc = DeadLetter

\* The result of _fail_record ignored: commit after any forward.
commit_after_forward_always(ok) == TRUE

\* if self._fail_record(record): self._consumer.commit()
commit_after_forward(ok) == ok

\* A commit that leaves the committed offsets where they were.
commit_offsets_stale(pos, rec, old) == old

\* KafkaConsumer.commit() without arguments commits the consumer's current
\* position of every assigned partition.
commit_offsets(pos, rec, old) == pos

\* A timeout that runs from the moment the task enters the pool's process.
wait_expired_in_slot(wait_time, slot_time, timeout) == slot_time >= timeout

\* run.get(timeout) gives up once the wait has lasted `timeout`, whatever
\* time the task has spent in the pool's process.
wait_expired(wait_time, slot_time, timeout) == wait_time >= timeout

\* _fail_record sending without a key.
fail_key_none(rec) == "None"

\* _fail_record: key = dill.loads(record.value).key, None on any exception
\* (the bytes do not unpickle, or the object has no attribute key).
fail_key(rec) ==
    IF Loadable(rec.value) /\ loads(rec.value).type = "Job"
    THEN loads(rec.value).key
    ELSE "None"

\* _fail_record: q.producer.send(fail_topic, record.value, key=key)
fail_message(rec) ==
    [topic |-> "topic.failed", value |-> rec.value, key |-> fail_key(rec)]

\* How one call of _fail_record ends: Queue(...) or send raises (nothing
\* sent); the acknowledgment arrives; future.get raises KafkaError and the
\* method returns False; or the handler of that KafkaError raises itself
\* (e.message on an exception without that attribute).
ForwardResults == {"ctor_raises", "acked", "nack", "nack_log_raises"}

\* ------------------------------------------------------------ pool state
RecId(rec) == <<rec.partition, rec.offset>>

Task(rec, tries) ==
    [partition |-> rec.partition, offset |-> rec.offset, try_count |-> tries,
     hang |-> FALSE]

IsCurrent(task) ==
    /\ task.partition = record.partition
    /\ task.offset = record.offset

IsAwaited(task) == IsCurrent(task) /\ task.try_count = try_count

\* The awaited task is still queued behind a task that never returns.
AwaitedBlocked ==
    /\ slot # <<>>
    /\ slot[1].hang
    /\ ~IsAwaited(slot[1])

\* Records the consumer has yielded so far.
RECURSIVE SumTo(_, _)
SumTo(f, n) == IF n < 0 THEN 0 ELSE f[n] + SumTo(f, n - 1)

Fetched == SumTo(position, LastPartition)

Running == (IF pc = "inline" THEN 1 ELSE 0) + Len(slot)

\* ----------------------------------------------------------------- actions
\* for record in self._consumer: the consumer yields the next record of one
\* of its partitions and moves its position past it.
Fetch(p, value, key) ==
    /\ pc = "fetch"
    /\ Fetched < MaxRecords
    /\ record' = [partition |-> p, offset |-> position[p], key |-> key,
                  value |-> value]
    /\ position' = [position EXCEPT ![p] = @ + 1]
    /\ commit_control' = 0
    /\ try_count' = 0
    /\ pc' = "attempt"
    /\ hist' = <<>>
    /\ events' = <<>>
    /\ forwarded' = <<>>
    /\ redelivery' = (redelivery /\ record = NoRecord)
    /\ UNCHANGED <<w_timeout, w_callback, committed, inline_hang, pool, slot,
                   result, waited, in_slot, settled, producers>>

\* The end of one pass of the while loop of start(): _consume_record
\* returned cc, try_count grows, the loop goes on while cc == 0.
EndAttempt(cc, entry) ==
    /\ loop_again(cc) => try_count + 1 < MaxTries
    /\ commit_control' = cc
    /\ try_count' = try_count + 1
    /\ hist' = <<entry>>
    /\ pc' = IF loop_again(cc) THEN "attempt" ELSE "settle"
    /\ events' = Append(events, IF cc = Retry THEN "retry" ELSE "decided")
    /\ inline_hang' = FALSE
    /\ result' = "pending"
    /\ waited' = 0
    /\ in_slot' = 0

\* What is recorded of a finished attempt: how the callable ended, the
\* status it was given, the calls of the callback and what the callback did,
\* the decision, and the clocks of the wait.
Entry(outcome, status, calls, cb, cc, timeout, blocked) ==
    [try_count |-> try_count, outcome |-> outcome, status |-> status,
     calls |-> calls, cb |-> cb, decision |-> cc, timeout |-> timeout,
     waited |-> waited, in_slot |-> in_slot, blocked |-> blocked]

NoCallback == [kind |-> "absent", val |-> 0]

\* The except / else branches of _consume_record after the callable ended
\* with `outcome`: one call of _exec_callback.
Dispatch(outcome, cb, timeout, blocked) ==
    LET status == status_of(outcome)
        job == loads(record.value)
        calls == IF w_callback
                 THEN <<callback_args(status, job, try_count)>>
                 ELSE <<>>
        cc == exec_callback(w_callback, cb)
    IN  EndAttempt(cc, Entry(outcome, status, calls,
                             IF w_callback THEN cb ELSE NoCallback,
                             cc, timeout, blocked))

\* _consume_record up to the point where it blocks: the record is
\* unloadable or malformed (decision -1, no callback), the callable is
\* called inline (h: it never returns), or it is submitted to the pool.
ConsumeRecord(h) ==
    /\ pc = "attempt"
    /\ IF ~Loadable(record.value) \/ ~IsValidJob(loads(record.value))
       THEN /\ EndAttempt(malformed_decision,
                          Entry("none", "malformed", <<>>, NoCallback,
                                malformed_decision, NoTimeout, FALSE))
            /\ UNCHANGED pool
       ELSE LET timeout == effective_timeout(w_timeout, loads(record.value))
            IN  IF timeout = NoTimeout
                THEN /\ pc' = "inline"
                     /\ inline_hang' = h
                     /\ events' = events \o <<"dispatch", "start">>
                     /\ UNCHANGED <<pool, result, waited, in_slot,
                                    commit_control, try_count, hist>>
                ELSE /\ pc' = "waiting"
                     /\ pool' = Append(pool, Task(record, try_count))
                     /\ events' = Append(events, "dispatch")
                     /\ UNCHANGED <<inline_hang, result, waited, in_slot,
                                    commit_control, try_count, hist>>
    /\ UNCHANGED <<w_timeout, w_callback, position, committed, record, slot,
                   forwarded, settled, producers,
                   redelivery>>

\* res = func(*args, **kwargs) returns or raises.
InlineReturn(outcome, cb) ==
    /\ pc = "inline"
    /\ ~inline_hang
    /\ Dispatch(outcome, cb, NoTimeout, FALSE)
    /\ UNCHANGED <<w_timeout, w_callback, position, committed, record, pool,
                   slot, forwarded, settled, producers,
                   redelivery>>

\* run.get(timeout) returns the task's value or re-raises its exception.
GetResult(cb) ==
    /\ pc = "waiting"
    /\ result # "pending"
    /\ Dispatch(result, cb, effective_timeout(w_timeout, loads(record.value)),
                FALSE)
    /\ UNCHANGED <<w_timeout, w_callback, position, committed, record, pool,
                   slot, forwarded, settled, producers,
                   redelivery>>

\* run.get(timeout) raises multiprocessing.TimeoutError; the task stays in
\* the pool.
GetTimeout(cb) ==
    LET timeout == effective_timeout(w_timeout, loads(record.value))
    IN  /\ pc = "waiting"
        /\ result = "pending"
        /\ wait_expired(waited, in_slot, timeout)
        /\ Dispatch("expired", cb, timeout, AwaitedBlocked)
        /\ UNCHANGED <<w_timeout, w_callback, position, committed, record,
                       pool, slot, forwarded, settled, producers,
                       redelivery>>

\* Lines 329-333 of start(): forward and commit, or commit.
Settle(fr) ==
    /\ pc = "settle"
    /\ IF is_dead_letter(commit_control)
       THEN /\ producers' = producers + 1
            /\ forwarded' = IF fr = "ctor_raises" THEN forwarded
                            ELSE Append(forwarded, fail_message(record))
            /\ pc' = IF fr \in {"ctor_raises", "nack_log_raises"}
                     THEN "crashed" ELSE "fetch"
            /\ IF fr \in {"acked", "nack"} /\ commit_after_forward(fr = "acked")
               THEN /\ committed' = commit_offsets(position, record, committed)
                    /\ events' = events \o
                          <<IF fr = "acked" THEN "forward_ok"
                            ELSE "forward_fail", "commit">>
               ELSE /\ committed' = committed
                    /\ events' = Append(events,
                          IF fr = "acked" THEN "forward_ok"
                          ELSE IF fr = "ctor_raises" THEN "forward_raise"
                          ELSE "forward_fail")
            /\ settled' = IF fr = "acked" THEN settled \cup {RecId(record)}
                          ELSE settled
       ELSE /\ fr = "acked"
            /\ committed' = commit_offsets(position, record, committed)
            /\ events' = Append(events, "commit")
            /\ settled' = settled \cup {RecId(record)}
            /\ pc' = "fetch"
            /\ UNCHANGED <<producers, forwarded>>
    /\ UNCHANGED <<w_timeout, w_callback, position, record, commit_control,
                   try_count, inline_hang, pool, slot, result, waited,
                   in_slot, hist, redelivery>>

\* except KeyboardInterrupt: self._pool.terminate().  start() returns: its
\* locals and the delivery it was working on are gone.
Stop ==
    /\ pc \notin {"stopped", "crashed"}
    /\ pc' = "stopped"
    /\ pool' = <<>>
    /\ slot' = <<>>
    /\ inline_hang' = FALSE
    /\ result' = "pending"
    /\ waited' = 0
    /\ in_slot' = 0
    /\ record' = NoRecord
    /\ commit_control' = 0
    /\ try_count' = 0
    /\ hist' = <<>>
    /\ events' = <<>>
    /\ forwarded' = <<>>
    /\ redelivery' = FALSE
    /\ UNCHANGED <<w_timeout, w_callback, position, committed, settled,
                   producers>>

\* A new worker takes the place of one that has stopped or was taken out of
\* start() by an exception: __init__ builds a consumer of the same group,
\* which resumes at the offsets the group has committed, and start() builds
\* a new pool.  The records between the committed offset and the position
\* the old worker had reached are delivered again.  (The group is one that
\* has committed offsets; without any, auto_offset_reset = 'latest' puts
\* the consumer at the end of the log.)
Restart ==
    /\ pc \in {"stopped", "crashed"}
    /\ pc' = "fetch"
    /\ position' = committed
    /\ redelivery' = (\A p \in Partitions : position[p] > committed[p])
    /\ producers' = 0
    /\ pool' = <<>>
    /\ slot' = <<>>
    /\ inline_hang' = FALSE
    /\ result' = "pending"
    /\ waited' = 0
    /\ in_slot' = 0
    /\ record' = NoRecord
    /\ commit_control' = 0
    /\ try_count' = 0
    /\ hist' = <<>>
    /\ events' = <<>>
    /\ forwarded' = <<>>
    /\ UNCHANGED <<w_timeout, w_callback, committed, settled>>

\* A pool that ends a task nobody waits for any more to take the next one.
PoolStart_evicting(h) ==
    /\ pool # <<>>
    /\ IF slot = <<>> THEN TRUE
       ELSE ~(pc = "waiting" /\ IsAwaited(slot[1]))
    /\ slot' = <<[Head(pool) EXCEPT !.hang = h]>>
    /\ pool' = Tail(pool)
    /\ events' = IF IsCurrent(Head(pool)) THEN Append(events, "start")
                 ELSE events
    /\ UNCHANGED <<w_timeout, w_callback, position, committed, pc, record,
                   commit_control, try_count, inline_hang, result, waited,
                   in_slot, hist, forwarded, settled, producers,
                   redelivery>>

\* The pool's one process takes the next task; h: this execution of the
\* callable never returns.
PoolStart(h) ==
    /\ slot = <<>>
    /\ pool # <<>>
    /\ slot' = <<[Head(pool) EXCEPT !.hang = h]>>
    /\ pool' = Tail(pool)
    /\ events' = IF IsCurrent(Head(pool)) THEN Append(events, "start")
                 ELSE events
    /\ UNCHANGED <<w_timeout, w_callback, position, committed, pc, record,
                   commit_control, try_count, inline_hang, result, waited,
                   in_slot, hist, forwarded, settled, producers,
                   redelivery>>

\* The task in the pool's process ends; its result reaches the worker only
\* if the worker still waits for this task.
PoolFinish(outcome) ==
    /\ slot # <<>>
    /\ ~slot[1].hang
    /\ slot' = <<>>
    /\ result' = IF pc = "waiting" /\ IsAwaited(slot[1]) THEN outcome
                 ELSE result
    /\ UNCHANGED <<w_timeout, w_callback, position, committed, pc, record,
                   commit_control, try_count, inline_hang, pool, waited,
                   in_slot, hist, events, forwarded, settled, producers,
                   redelivery>>

\* One unit of time passes while the worker waits in run.get(timeout).  It
\* does not pass while run.get has a result or a timeout to deliver, nor
\* while the idle pool process has a task to take.
Tick ==
    /\ pc = "waiting"
    /\ result = "pending"
    /\ ~wait_expired(waited, in_slot,
                     effective_timeout(w_timeout, loads(record.value)))
    /\ ~(slot = <<>> /\ pool # <<>>)
    /\ waited' = waited + 1
    /\ in_slot' = IF slot # <<>> /\ IsAwaited(slot[1]) THEN in_slot + 1
                  ELSE in_slot
    /\ UNCHANGED <<w_timeout, w_callback, position, committed, pc, record,
                   commit_control, try_count, inline_hang, pool, slot, result,
                   hist, events, forwarded, settled, producers,
                   redelivery>>

Next ==
    \/ \E p \in Partitions, value \in Payloads :
          \E key \in RecordKeys(value) : Fetch(p, value, key)
    \/ \E h \in BOOLEAN : ConsumeRecord(h)
    \/ \E outcome \in FuncResults, cb \in CallbackBehaviours :
          InlineReturn(outcome, cb)
    \/ \E cb \in CallbackBehaviours : GetResult(cb)
    \/ \E cb \in CallbackBehaviours : GetTimeout(cb)
    \/ \E fr \in ForwardResults : Settle(fr)
    \/ Stop
    \/ Restart
    \/ \E h \in BOOLEAN : PoolStart(h)
    \/ \E outcome \in FuncResults : PoolFinish(outcome)
    \/ Tick

Spec == Init /\ [][Next]_vars

\* The steps of the thread that runs start(), apart from the blocking fetch
\* of the next record: it goes on whenever it can.
WorkerStep ==
    \/ \E h \in BOOLEAN : ConsumeRecord(h)
    \/ \E outcome \in FuncResults, cb \in CallbackBehaviours :
          InlineReturn(outcome, cb)
    \/ \E cb \in CallbackBehaviours : GetResult(cb)
    \/ \E cb \in CallbackBehaviours : GetTimeout(cb)
    \/ \E fr \in ForwardResults : Settle(fr)

\* The steps of the pool's process.
PoolStep ==
    \/ \E h \in BOOLEAN : PoolStart(h)
    \/ \E outcome \in FuncResults : PoolFinish(outcome)

\* The worker's thread and the pool's process are scheduled and time
\* passes; the stop signal and the arrival of records are not owed.
FairSpec ==
    /\ Spec
    /\ WF_vars(WorkerStep)
    /\ WF_vars(PoolStep)
    /\ WF_vars(Tick)

\* ------------------------------------------------------------ vocabulary
Count(seq, x) == Cardinality({i \in DOMAIN seq : seq[i] = x})

ForwardEvents == {"forward_ok", "forward_fail", "forward_raise"}

Forwards == Cardinality({i \in DOMAIN events : events[i] \in ForwardEvents})

\* The worker is done with the record of the for loop: it is back at the
\* head of the loop, or the forward took it out of start().
Done == pc \in {"fetch", "crashed"} /\ hist # <<>>

\* The record's payload unpickles to a job the validity check accepts.
WellFormed == record.value.kind = "Job" /\ record.value.shape = "ok"

\* The callback is absent, raised, or returned None in the last attempt.
NoDecision == hist[1].cb.kind \in {"absent", "raise", "none"}

\* Executions of the record's callable that have started, plus those that
\* can still start: its tasks queued in the pool, unless the pool's process
\* is held by a task that never returns.
Queued == Cardinality({i \in DOMAIN pool : IsCurrent(pool[i])})

Runs ==
    Count(events, "start")
    + (IF slot # <<>> /\ slot[1].hang THEN 0 ELSE Queued)

\* The group's committed offset is past the record of the for loop.
OffsetCommitted == committed[record.partition] > record.offset

\* ------------------------------------------------------------------- C1
\* C1 as stated: a delivery of a well-formed job whose only attempt got no
\* decision from the callback (absent, raised, returned None) is decided
\* 'commit' whatever the status; once the worker is done with it the
\* callable is run exactly once (it has started once, or is queued and will
\* start), no forward was attempted and the offset is committed.
C1_RunExactlyOnce ==
    (hist # <<>> /\ WellFormed /\ NoDecision /\ hist[1].try_count = 0
       /\ pc \in {"settle", "fetch"})
    => /\ hist[1].decision = DefaultResp
       /\ Runs = 1
       /\ Forwards = 0
       /\ pc = "fetch" => OffsetCommitted /\ Count(events, "commit") = 1

\* C1 amended: as C1, with "run exactly once" replaced by "dispatched
\* exactly once": the callable is called inline once, or submitted once to
\* the pool, where it has started at most once and may never start.
C1_DefaultCommit ==
    (hist # <<>> /\ WellFormed /\ NoDecision /\ pc \in {"settle", "fetch"})
    => /\ hist[1].decision = DefaultResp
       /\ hist[1].decision # Retry /\ hist[1].decision # DeadLetter
       /\ hist[1].try_count = 0 =>
            /\ Count(events, "dispatch") = 1
            /\ Count(events, "start") <= 1
       /\ Forwards = 0
       /\ pc = "fetch" => OffsetCommitted /\ Count(events, "commit") = 1

\* A job whose attempt timed out while it was queued behind a task that
\* never returns is committed by default, the callback having raised.
C1_Witness ==
    /\ pc = "fetch" /\ hist # <<>> /\ WellFormed
    /\ hist[1].cb.kind = "raise"
    /\ hist[1].status = "timeout"
    /\ hist[1].try_count = 0
    /\ Count(events, "dispatch") = 1
    /\ Runs = 0
    /\ OffsetCommitted

\* ------------------------------------------------------------------- C2
\* The delivery ended with N - 1 retries followed by a commit decision.
RetriesThenCommit ==
    /\ pc = "fetch" /\ hist # <<>>
    /\ hist[1].status # "malformed"
    /\ hist[1].decision # DeadLetter

Attempts == Count(events, "retry") + Count(events, "decided")

\* C2 as stated: after N - 1 retries and a commit decision the callable is
\* run exactly N times (N executions have started or are queued and will
\* start) and the commit is issued exactly once.
C2_RunNTimes ==
    RetriesThenCommit
    => /\ Runs = Attempts
       /\ Count(events, "commit") = 1

\* C2 amended: after N - 1 retries and a commit decision the callable has
\* been dispatched (called inline or submitted to the pool) exactly N
\* times, once per attempt and before that attempt's decision; the commit
\* is issued exactly once, after the N-th attempt, and no further dispatch
\* follows it.
C2_DispatchedNTimes ==
    RetriesThenCommit
    => /\ Attempts = Count(events, "retry") + 1
       /\ Count(events, "dispatch") = Attempts
       /\ hist[1].try_count + 1 = Attempts
       /\ Count(events, "commit") = 1
       /\ \A i \in DOMAIN events :
             /\ events[i] = "commit" =>
                  \A j \in DOMAIN events :
                     events[j] \in {"dispatch", "retry", "decided"} => j < i
             /\ events[i] \in {"retry", "decided"} =>
                  Count(SubSeq(events, 1, i), "dispatch")
                    = Count(SubSeq(events, 1, i), "retry")
                      + Count(SubSeq(events, 1, i), "decided")

\* A delivery with a retry and then a commit decision, whose first
\* execution never returns: two dispatches, one execution.
C2_Witness ==
    /\ RetriesThenCommit
    /\ Count(events, "retry") >= 1
    /\ Count(events, "dispatch") = Count(events, "retry") + 1
    /\ Count(events, "commit") = 1
    /\ Runs = 1

\* ------------------------------------------------------------------- C3
\* C3: the committed offset of a partition is past a record only if the
\* record got a decision other than retry and dead-letter, or was forwarded
\* to the dead-letter topic with success.
C3_CommittedOnlySettled ==
    \A p \in Partitions :
       \A o \in 0 .. (committed[p] - 1) : <<p, o>> \in settled

\* ------------------------------------------------------------------- C4
\* C4: once the worker is done with a record whose final decision is the
\* dead-letter sentinel, it has made exactly one forward attempt, a commit
\* was issued if and only if the forward succeeded and then after it, and
\* after a failed forward the offset of the record is not committed; before
\* that, no commit is issued.
C4_ForwardThenCommit ==
    (hist # <<>> /\ hist[1].decision = DeadLetter)
    => /\ pc = "settle" => Forwards = 0 /\ Count(events, "commit") = 0
       /\ Done =>
            /\ Forwards = 1
            /\ Count(events, "commit") = Count(events, "forward_ok")
            /\ \A i \in DOMAIN events :
                  events[i] = "commit" =>
                     i > 1 /\ events[i - 1] = "forward_ok"
            /\ Count(events, "forward_ok") = 0 => ~OffsetCommitted

\* The forward of a dead-lettered record failed and no commit was issued.
C4_Witness ==
    /\ pc = "fetch" /\ hist # <<>>
    /\ hist[1].decision = DeadLetter
    /\ Count(events, "forward_fail") = 1
    /\ Count(events, "commit") = 0
    /\ ~OffsetCommitted

\* ------------------------------------------------------------------- C5
\* C5: for a record whose payload does not unpickle or is no job with
\* iterable args, mapping kwargs and callable func, no callable is
\* dispatched or started, the callback is not called, there is exactly one
\* attempt and its decision is dead-letter, with or without a callback.
C5_MalformedDeadLetter ==
    (record # NoRecord /\ ~WellFormed)
    => /\ Count(events, "dispatch") = 0
       /\ Count(events, "start") = 0
       /\ Count(events, "retry") = 0
       /\ pc \notin {"inline", "waiting"}
       /\ \A i \in DOMAIN pool : ~IsCurrent(pool[i])
       /\ \A i \in DOMAIN slot : ~IsCurrent(slot[i])
       /\ hist # <<>> =>
            /\ hist[1].calls = <<>>
            /\ hist[1].status = "malformed"
            /\ hist[1].decision = DeadLetter
            /\ Attempts = 1
            /\ pc # "attempt"

\* A Job whose func is not callable was dead-lettered by a worker that has a
\* callback.
C5_Witness ==
    /\ Done /\ w_callback
    /\ record.value.kind = "Job" /\ record.value.shape = "bad_func"
    /\ hist[1].decision = DeadLetter
    /\ Forwards = 1

\* ------------------------------------------------------------------- C6
\* C6 as stated: every message sent to the fail topic for a record has the
\* record's payload bytes and the record's key, whether or not the payload
\* unpickles.
C6_SameKeySameBytes ==
    \A i \in DOMAIN forwarded :
       /\ forwarded[i].topic = "topic.failed"
       /\ forwarded[i].value = record.value
       /\ forwarded[i].key = record.key

\* C6 amended: every message sent to the fail topic for a record has the
\* record's payload bytes; its key is the key of the job when the payload
\* unpickles to a Job (the key the queue enqueued it under), and None when
\* the payload does not unpickle or unpickles to an object without a key,
\* whatever the key of the record.
C6_BytesAndJobKey ==
    \A i \in DOMAIN forwarded :
       /\ forwarded[i].topic = "topic.failed"
       /\ forwarded[i].value = record.value
       /\ record.value.kind = "Job" =>
            /\ forwarded[i].key = record.value.key
            /\ forwarded[i].key = record.key
       /\ record.value.kind # "Job" => forwarded[i].key = "None"

\* A well-formed job dead-lettered by the callback was forwarded under its
\* key, bytes unchanged.
C6_Witness ==
    /\ Done /\ WellFormed
    /\ Len(forwarded) = 1
    /\ forwarded[1].key = "k1"
    /\ forwarded[1].value = record.value

C8_DecisionByValue ==
    (hist # <<>> /\ hist[1].cb.kind = "value")
    => /\ pc \in {"attempt", "inline", "waiting"} <=> hist[1].cb.val = Retry
       /\ Done =>
            /\ Forwards >= 1 <=> hist[1].cb.val = DeadLetter
            /\ hist[1].cb.val \notin {Retry, DeadLetter} =>
                 /\ Forwards = 0
                 /\ Count(events, "commit") = 1
                 /\ OffsetCommitted
                 /\ pc = "fetch"

\* A job that raised is committed because the callback returned 2.
C8_Witness ==
    /\ Done
    /\ hist[1].status = "failure"
    /\ hist[1].cb = [kind |-> "value", val |-> 2]
    /\ OffsetCommitted
    /\ Forwards = 0

\* ------------------------------------------------------------------- C9
\* C9: at most one callable dispatched by the worker is executing, counting
\* the one called inline and the one in the pool's process.
C9_AtMostOneRunning == Running <= 1

\* ------------------------------------------------------------------ C10
\* C10 as stated: an attempt dispatched behind a task that never returns
\* does not end with 'timeout' before its task has spent the timeout in the
\* pool's process.
C10_TimeoutFromSlotEntry ==
    (hist # <<>> /\ hist[1].outcome = "expired" /\ hist[1].blocked)
    => hist[1].in_slot >= hist[1].timeout

\* C10 amended: the timeout of an attempt is measured from the moment the
\* worker submits the task and starts to wait: the wait never lasts longer
\* than the timeout, and the attempt ends with 'timeout' when the wait has
\* lasted the timeout with no result, whatever time the task has spent in
\* the pool's process, none included.
C10_TimeoutFromDispatch ==
    /\ pc = "waiting" =>
         waited <= effective_timeout(w_timeout, loads(record.value))
    /\ (hist # <<>> /\ hist[1].outcome = "expired")
       => /\ hist[1].waited = hist[1].timeout
          /\ hist[1].in_slot <= hist[1].waited

\* An attempt behind a task that never returns ended with 'timeout' after a
\* positive timeout, its task never having entered the pool's process.
C10_Witness ==
    /\ hist # <<>> /\ hist[1].outcome = "expired"
    /\ hist[1].blocked
    /\ hist[1].timeout >= 1
    /\ hist[1].in_slot = 0
    /\ Count(events, "start") = 0

\* ------------------------------------------------------------------ C11
\* C11: no failure of a record takes the worker out of its loop: a decode
\* error, an exception of the callable or of the callback, and any failure
\* of the forward (building the producer, sending, waiting for the
\* acknowledgment) leave the worker in the loop, which only the stop signal
\* ends.
C11_FailuresContained == pc # "crashed"

\* ------------------------------------------------------------------ C12
\* The worker takes the next record of the for loop.
FetchStep == pc = "fetch" /\ pc' = "attempt"

\* The last step of the worker in the log of the delivery; the starts of
\* executions are steps of the pool's process.
IsWorkerEvent(e) == e # "start"

LastEvent ==
    LET w == SelectSeq(events, IsWorkerEvent)
    IN  IF w = <<>> THEN "none" ELSE w[Len(w)]

\* C12: the record the worker attempts is the latest one fetched from its
\* partition and is not committed yet; the worker takes a record only at
\* the next offset of the partition, above the offset of the record before,
\* and only after the attempt loop of the record before has ended with a
\* commit or a forward attempt; every commit raises the committed offset of
\* the record's partition, to one past the record.
C12_StrictOffsetOrder ==
    /\ [](pc \in {"attempt", "inline", "waiting", "settle"}
            => /\ record.offset = position[record.partition] - 1
               /\ committed[record.partition] <= record.offset)
    /\ [][/\ FetchStep =>
               /\ record'.offset = position[record'.partition]
               /\ record = NoRecord => position = committed
               /\ record # NoRecord =>
                    /\ record'.partition = record.partition =>
                         record'.offset = record.offset + 1
                    /\ LastEvent \in {"commit"} \cup ForwardEvents
                    /\ Count(events, "decided") = 1
                    /\ Count(events, "commit") + Forwards >= 1
          /\ ~FetchStep /\ Count(events', "commit") > Count(events, "commit")
              => /\ committed'[record.partition]
                      > committed[record.partition]
                 /\ committed'[record.partition] = record.offset + 1
         ]_vars

\* The second record of the partition was fetched after the first and is
\* committed, the committed offset being one past it.
C12_Witness ==
    /\ pc = "fetch" /\ hist # <<>>
    /\ record.offset = 1
    /\ committed[record.partition] = 2
    /\ LastEvent = "commit"

\* ------------------------------------------------------------------ C13
\* The latest decision for the record of the for loop is retry.
LatestRetry == hist # <<>> /\ hist[1].decision = Retry

HeldByTimedOut ==
    /\ slot # <<>>
    /\ slot[1].hang
    /\ ~(pc = "waiting" /\ IsAwaited(slot[1]))

\* C14: the pool's process holds at most one task; from the moment it holds
\* a task that never returns and whose attempt has timed out, and until the
\* worker stops or has left start(), the task stays where it is, no task
\* leaves the queue to start, and every attempt with an effective timeout
\* that ends has the status 'timeout', its task not started.
C14_HeadOfLineBlocking ==
    /\ [](Len(slot) <= 1)
    /\ [][(HeldByTimedOut /\ pc' # "stopped" /\ pc # "crashed")
          => /\ slot' = slot
             /\ HeldByTimedOut'
             /\ pool' = pool \/ (\E t \in {Task(record, try_count)} :
                                    pool' = Append(pool, t))
             /\ (pc = "waiting" /\ pc' # "waiting")
                 => /\ hist'[1].outcome = "expired"
                    /\ hist'[1].status = "timeout"
                    /\ hist'[1].blocked
                    /\ hist'[1].in_slot = 0
         ]_vars

\* With the pool's process held by a timed-out task of the first record, an
\* attempt of the second record has ended with 'timeout' after a positive
\* timeout, its callable not started.
C14_Witness ==
    /\ HeldByTimedOut
    /\ record.offset = 1 /\ slot[1].offset = 0
    /\ hist # <<>> /\ hist[1].status = "timeout"
    /\ hist[1].timeout >= 1
    /\ hist[1].blocked
    /\ Count(events, "start") = 0
    /\ Count(events, "dispatch") = 1

\* ------------------------------------------------------------------ C15
\* C15: with an effective timeout every attempt that waits for the pool
\* comes to an outcome, and a record whose attempt under a timeout got a
\* decision other than retry is committed or forwarded and the worker is
\* back at the head of its loop to fetch the next record, unless it is
\* stopped; with no effective timeout a
\* call that never returns keeps the worker in that attempt until it is
\* stopped.
C15_TimeoutIsolation ==
    /\ (pc = "waiting") ~> (pc # "waiting")
    /\ (pc = "settle" /\ hist[1].timeout # NoTimeout)
         ~> (pc \in {"fetch", "stopped"})
    /\ [][(pc = "inline" /\ inline_hang)
          => (pc' = "stopped" \/ (pc' = "inline" /\ record' = record
                                    /\ position' = position
                                    /\ committed' = committed))]_vars

\* ------------------------------------------------------------------ C16
\* The effective timeout as C16 states it: the worker's timeout whenever
\* one is configured, zero included, else the job's, else none.
StatedTimeout ==
    IF w_timeout # NoTimeout THEN w_timeout ELSE loads(record.value).timeout

\* C16: for every worker timeout and job timeout (absent, zero, positive),
\* the callable is called inline exactly when the stated effective timeout
\* is none, and is otherwise submitted to the pool and waited for with the
\* stated effective timeout as the bound.
C16_WorkerTimeoutWins ==
    /\ pc = "inline" => StatedTimeout = NoTimeout
    /\ pc = "waiting" =>
         /\ StatedTimeout # NoTimeout
         /\ effective_timeout(w_timeout, loads(record.value)) = StatedTimeout
         /\ waited <= StatedTimeout
    /\ (hist # <<>> /\ hist[1].status # "malformed") =>
         hist[1].timeout = StatedTimeout

C18_SingleProducer == pc # "crashed" => producers <= 1

\* ------------------------------------------------------------------ C19
\* C19: an attempt has the status 'timeout' only if it had an effective
\* timeout; an attempt without one, whose callable was called inline and
\* raised an exception of any type, multiprocessing.TimeoutError included,
\* has the status 'failure', and the callback, if there is one, is given
\* the exception and the trace.
C19_TimeoutOnlyWithTimeout ==
    hist # <<>> =>
       /\ hist[1].status = "timeout" => hist[1].timeout # NoTimeout
       /\ (hist[1].timeout = NoTimeout /\ hist[1].outcome \in {"exc", "toexc"})
          => /\ hist[1].status = "failure"
             /\ \A i \in DOMAIN hist[1].calls :
                   /\ hist[1].calls[i][1] = "failure"
                   /\ hist[1].calls[i][4] = "exc"
                   /\ hist[1].calls[i][5] = "tb"

\* ------------------------------------------------------------------ C20
\* The task belongs to the record of the for loop, which is neither
\* committed nor forwarded yet.
OfOpenRecord(task) ==
    /\ record # NoRecord
    /\ IsCurrent(task)
    /\ Count(events, "commit") + Forwards = 0

\* C20: every task that is queued in the pool or runs in its process
\* belongs to the record the worker is attempting, so that at the commit or
\* the forward of a record, and from then on, none of its callables is
\* running or queued; and the tasks of timed-out attempts do not pile up:
\* the pool holds at most one task, queued or running.  (Stated for a
\* worker that is in its loop.)
C20_NothingLeftBehind ==
    pc # "crashed" =>
       /\ \A i \in DOMAIN slot : OfOpenRecord(slot[i])
       /\ \A i \in DOMAIN pool : OfOpenRecord(pool[i])
       /\ Len(pool) + Len(slot) <= 1

====
